---- MODULE Spec2Model ----
(***************************************************************************)
(* EcoSnap AI detection service: the WasteDetector (ai/waste_detector.py), *)
(* its REST front end (ai/detection.py) and the server start-up            *)
(* (ai/main.py).                                                           *)
(*                                                                         *)
(* Units.  A probability p of the model output is the integer p * 100000,  *)
(* so the same integer is the confidence "p * 100" in thousandths of a     *)
(* percent: 60000 is 60.0 %, 59996 is 59.996 %.  round(x, 2) keeps         *)
(* hundredths of a percent, i.e. multiples of 10 units.                    *)
(***************************************************************************)
EXTENDS Integers, Sequences, FiniteSets

VARIABLES
    phase,   \* "down" (not started), "running" (waste_detector constructed), "crashed" (constructor raised)
    model,   \* waste_detector.model
    file,    \* models/waste_detector.h5 on disk: "absent", "corrupt", or the weights saved in it
    boot,    \* the file the last load_model found, and whether create_model could succeed
    req,     \* the request each server thread is handling
    trainer, \* a run of the training script ai/train_model.py
    taco     \* a run of DatasetPreprocessor over a TACO dataset

vars == <<phase, model, file, boot, req, trainer, taco>>

(***************************************************************************)
(* Bounds                                                                  *)
(***************************************************************************)
NumThreads == 2

Threads == 1..NumThreads

(***************************************************************************)
(* WasteDetector.__init__: the configuration                               *)
(***************************************************************************)
class_names == <<"Plastic", "Chemical", "Oil", "Mixed Waste">>

Classes == {class_names[i] : i \in 1..Len(class_names)}

\* risk_levels with the entry of 'Oil' mistyped
risk_levels_oil_medium(name) ==
    CASE name = "Plastic"     -> "Medium"
      [] name = "Chemical"    -> "Critical"
      [] name = "Oil"         -> "Medium"
      [] name = "Mixed Waste" -> "Medium"

risk_levels(name) ==
    CASE name = "Plastic"     -> "Medium"
      [] name = "Chemical"    -> "Critical"
      [] name = "Oil"         -> "High"
      [] name = "Mixed Waste" -> "Medium"

\* confidence_threshold * 100, in thousandths of a percent (0.6 -> 60.0 %)
confidence_threshold == 60000

\* the 50.0 of "max(confidence, 50.0)": minimum confidence for unknown
MinConfidence == 50000

\* the 50.0 of _create_error_result
ErrorConfidence == 50000

\* the 50.0 of the handlers' own 400 and 500 bodies
HandlerConfidence == 50000

\* the 25.0 of the error result's allPredictions
ErrorPrediction == 25000

\* self.model = None.  origin: "none", "created" (create_model) or "loaded"
\* (from the file); weights: "none", "imagenet" (as created), "old" (of a file
\* left by an earlier run) or "new" (fitted by a train request of this run)
NoModel == [origin |-> "none", weights |-> "none"]

\* a request slot before predict has returned, and before the answer
NoResult == [wasteType |-> "none"]

NoBody == [none |-> TRUE]

(***************************************************************************)
(* Model outputs: vectors over the four classes that sum to 1.0            *)
(***************************************************************************)
PVals == {0, 4, 6, 25000, 39994, 40000, 40004, 49996, 50000, 50004,
          59994, 59996, 60000, 60006, 99996, 100000}

RECURSIVE SumSeq(_)
SumSeq(s) == IF s = <<>> THEN 0 ELSE Head(s) + SumSeq(Tail(s))

\* every output the sequential specification feeds to the thresholding
OutputsWide == {v \in [1..Len(class_names) -> PVals] : SumSeq(v) = 100000}

\* the outputs of the threaded specification: one confident, one not
Outputs == {<<10000, 90000, 0, 0>>, <<40004, 59996, 0, 0>>}

(***************************************************************************)
(* Pure helpers of predict                                                 *)
(***************************************************************************)
\* np.argmax: the first index holding the maximum
ArgMax(v) ==
    CHOOSE i \in DOMAIN v :
        /\ \A j \in DOMAIN v : v[j] <= v[i]
        /\ \A j \in DOMAIN v : j < i => v[j] < v[i]

\* Python's round(x, 2) on a percentage: nearest hundredth, ties to even
Round2(x) ==
    LET q == x \div 10
        r == x % 10
    IN  IF r < 5 THEN q * 10
        ELSE IF r > 5 THEN (q + 1) * 10
        ELSE IF q % 2 = 0 THEN q * 10 ELSE (q + 1) * 10

Max(a, b) == IF a >= b THEN a ELSE b

\* the comparison written "<=" instead of "<"
BelowOrAtThreshold(confidence) == confidence <= confidence_threshold

\* "if confidence < self.confidence_threshold * 100"
BelowThreshold(confidence) == confidence < confidence_threshold

\* WasteDetector._create_error_result
CreateErrorResult(error_message) ==
    [wasteType      |-> "Unknown",
     confidence     |-> ErrorConfidence,
     riskLevel      |-> "Low",
     error          |-> error_message,
     allPredictions |-> [i \in 1..Len(class_names) |-> ErrorPrediction]]

\* predict, from the argmax to the returned dictionary
FormatResult(predictions) ==
    LET predicted_class_idx == ArgMax(predictions)
        confidence == predictions[predicted_class_idx]
        waste_type == class_names[predicted_class_idx]
        risk_level == risk_levels(waste_type)
        below      == BelowThreshold(confidence)
    IN  [wasteType      |-> IF below THEN "Unknown" ELSE waste_type,
         confidence     |-> Round2(IF below THEN Max(confidence, MinConfidence)
                                            ELSE confidence),
         riskLevel      |-> IF below THEN "Low" ELSE risk_level,
         allPredictions |-> [i \in 1..Len(class_names) |-> Round2(predictions[i])]]

(***************************************************************************)
(* Construction: waste_detector = WasteDetector()                          *)
(***************************************************************************)
\* os.path.exists(model_path)
Exists(f) == f # "absent"

\* tf.keras.models.load_model raises on a file that is no loadable model
LoadRaises(f) == f = "corrupt"

\* load_model without the try/except around the loading
load_model_unguarded(f, createOk) ==
    IF Exists(f)
    THEN IF ~LoadRaises(f)
         THEN [model |-> [origin |-> "loaded", weights |-> f], raised |-> FALSE]
         ELSE [model |-> NoModel, raised |-> TRUE]
    ELSE IF createOk
         THEN [model |-> [origin |-> "created", weights |-> "imagenet"],
               raised |-> FALSE]
         ELSE [model |-> NoModel, raised |-> TRUE]

\* WasteDetector.load_model.  createOk: create_model (which fetches the
\* imagenet weights) returns instead of raising.  The result names the model
\* left in self.model and whether an exception left load_model.
load_model(f, createOk) ==
    LET created == IF createOk
                   THEN [model |-> [origin |-> "created", weights |-> "imagenet"],
                         raised |-> FALSE]
                   ELSE [model |-> NoModel, raised |-> TRUE]
    IN  IF Exists(f)
        THEN IF ~LoadRaises(f)
             THEN [model |-> [origin |-> "loaded", weights |-> f], raised |-> FALSE]
             ELSE created
        ELSE created

IdleSlot ==
    [route |-> "none", input |-> "none", arg |-> "none", pc |-> "idle",
     steps |-> <<>>, out |-> <<>>, midFit |-> FALSE,
     result |-> NoResult, status |-> 0, body |-> NoBody]

NoBoot == [file |-> "absent", createOk |-> TRUE]

\* neither script is being run
NoTrainer == [pc |-> "none"]

NoTaco == [pc |-> "none"]

\* the module has not been imported yet; the model file may be left over
\* from an earlier run, intact or not
Init ==
    /\ phase = "down"
    /\ model = NoModel
    /\ file \in {"absent", "corrupt", "old"}
    /\ boot = NoBoot
    /\ req = [t \in Threads |-> IdleSlot]
    /\ trainer = NoTrainer
    /\ taco = NoTaco

\* WasteDetector.__init__ at import of the module
Start ==
    /\ phase = "down"
    /\ \E createOk \in BOOLEAN :
        LET r == load_model(file, createOk)
        IN  /\ model' = r.model
            /\ phase' = IF r.raised THEN "crashed" ELSE "running"
            /\ boot' = [file |-> file, createOk |-> createOk]
    /\ UNCHANGED <<file, req, trainer, taco>>

\* the server process ends (debug reloader, operator): requests in flight are
\* lost, the model file stays
Restart ==
    /\ phase \in {"running", "crashed"}
    /\ phase' = "down"
    /\ model' = NoModel
    /\ req' = [t \in Threads |-> IdleSlot]
    /\ UNCHANGED <<file, boot, trainer, taco>>

(***************************************************************************)
(* Requests.  app.run serves each request on a thread of its own; a slot   *)
(* of req is one such thread.                                              *)
(***************************************************************************)
Free(t) == phase = "running" /\ req[t].pc \in {"idle", "done"}

\* the JSON bodies of POST /api/detect:
\*   "absent"      no body           "emptyObject"  {}
\*   "noKey"       {"other": 1}      "number"       5
\*   "httpUrl"     {"imageUrl": "http://host/a.jpg"}
\*   "localPath"   {"imageUrl": "/srv/private/a.png"}
\*   "nonString"   {"imageUrl": 5}
DetectBodies ==
    {"absent", "emptyObject", "noKey", "number", "httpUrl", "localPath", "nonString"}

\* request.get_json(): the parsed body, None, or an exception.  For a request
\* without a body it is None or an HTTP exception, by content type and
\* Flask version.
GetJson(body) ==
    IF body = "absent" THEN {"None", "raise"} ELSE {body}

\* "not data"
Falsy(data) == data \in {"None", "emptyObject"}

\* "'imageUrl' in data": membership is a TypeError on a number
HasImageUrl(data) ==
    CASE data \in {"httpUrl", "localPath", "nonString"} -> "yes"
      [] data = "number" -> "TypeError"
      [] OTHER -> "no"

\* data['imageUrl'], as preprocess_image will tell its argument apart
ImageUrl(data) ==
    CASE data = "httpUrl"   -> "http"
      [] data = "localPath" -> "path"
      [] OTHER              -> "other"

HandlerError(message) ==
    [error |-> message, wasteType |-> "Unknown",
     confidence |-> HandlerConfidence, riskLevel |-> "Low"]

\* the outcome of detect_waste up to its call of predict
DetectValidate(data) ==
    IF data = "raise"
    THEN [status |-> 500, body |-> HandlerError("Detection failed"), arg |-> "none"]
    ELSE IF Falsy(data) \/ HasImageUrl(data) = "no"
    THEN [status |-> 400, body |-> HandlerError("No image URL provided"), arg |-> "none"]
    ELSE IF HasImageUrl(data) = "TypeError"
    THEN [status |-> 500, body |-> HandlerError("Detection failed"), arg |-> "none"]
    ELSE [status |-> 0, body |-> NoBody, arg |-> ImageUrl(data)]

\* POST /api/detect: detect_waste up to "waste_detector.predict(image_url)"
DetectWaste(t) ==
    /\ Free(t)
    /\ \E body \in DetectBodies : \E data \in GetJson(body) :
        LET v == DetectValidate(data)
        IN  req' = [req EXCEPT ![t] =
                [IdleSlot EXCEPT !.route = "detect", !.input = body,
                    !.steps = IF v.status = 0 THEN <<"get_json", "predict">>
                                              ELSE <<"get_json">>,
                    !.arg = v.arg, !.status = v.status, !.body = v.body,
                    !.pc = IF v.status = 0 THEN "predict" ELSE "done"]]
    /\ UNCHANGED <<phase, model, file, boot, trainer, taco>>

\* the multipart forms of POST /api/detect/upload
UploadForms == {"noImagePart", "emptyFilename", "file"}

\* the outcome of detect_waste_upload up to its call of predict
UploadValidate(form) ==
    IF form = "noImagePart"
    THEN [status |-> 400, body |-> HandlerError("No image file provided"), arg |-> "none"]
    ELSE IF form = "emptyFilename"
    THEN [status |-> 400, body |-> HandlerError("No file selected"), arg |-> "none"]
    ELSE [status |-> 0, body |-> NoBody, arg |-> "bytes"]

\* POST /api/detect/upload: detect_waste_upload up to "predict(file_content)"
DetectWasteUpload(t) ==
    /\ Free(t)
    /\ \E form \in UploadForms :
        LET v == UploadValidate(form)
        IN  req' = [req EXCEPT ![t] =
                [IdleSlot EXCEPT !.route = "upload", !.input = form,
                    !.steps = IF v.status = 0 THEN <<"files", "predict">>
                                              ELSE <<"files">>,
                    !.arg = v.arg, !.status = v.status, !.body = v.body,
                    !.pc = IF v.status = 0 THEN "predict" ELSE "done"]]
    /\ UNCHANGED <<phase, model, file, boot, trainer, taco>>

\* GET /api/health: health_check up to "waste_detector.predict(None)"
HealthCheck(t) ==
    /\ Free(t)
    /\ req' = [req EXCEPT ![t] =
            [IdleSlot EXCEPT !.route = "health", !.input = "none",
                !.steps = <<"predict">>, !.arg = "other", !.pc = "predict"]]
    /\ UNCHANGED <<phase, model, file, boot, trainer, taco>>

(***************************************************************************)
(* WasteDetector.predict                                                   *)
(***************************************************************************)
\* preprocess_image.  arg tells the isinstance branches apart: "http" a str
\* that starts with 'http', "path" any other str, "bytes", "other" anything
\* else (None, a number), which has no .mode.  fetchOk: requests.get returns;
\* openOk: Image.open returns an image; convertOk: convert, resize and
\* np.array succeed.  steps are the operations attempted and then what was
\* returned, "preprocessed" (the array) or "preprocess_none" (None, from the
\* "except Exception"); ok is "the result is not None".
preprocess_image(arg, fetchOk, openOk, convertOk) ==
    LET returned(done, ok) ==
            [steps |-> done \o <<IF ok THEN "preprocessed" ELSE "preprocess_none">>,
             ok |-> ok]
        rest(done) ==
            IF openOk
            THEN returned(done \o <<"preprocess">>, convertOk)
            ELSE returned(done, FALSE)
    IN  CASE arg = "http" ->
                IF fetchOk THEN rest(<<"fetch", "decode">>)
                           ELSE returned(<<"fetch">>, FALSE)
          [] arg = "path"  -> rest(<<"open_local_file">>)
          [] arg = "bytes" -> rest(<<"decode">>)
          [] OTHER         -> returned(<<"preprocess">>, FALSE)

\* predict without the check for None
PreprocessNeverFailed(ok) == FALSE

\* "if processed_image is None"
PreprocessFailed(ok) == ~ok

\* predict, through the preprocessing: either on to the model or the error result
PredictPreprocess(t) ==
    /\ phase = "running"
    /\ req[t].pc = "predict"
    /\ \E fetchOk, openOk, convertOk \in BOOLEAN :
        LET p == preprocess_image(req[t].arg, fetchOk, openOk, convertOk)
        IN  req' = [req EXCEPT ![t] =
                IF PreprocessFailed(p.ok)
                THEN [@ EXCEPT !.steps = @ \o p.steps,
                        !.result = CreateErrorResult("Failed to preprocess image"),
                        !.pc = "return"]
                ELSE [@ EXCEPT !.steps = @ \o p.steps, !.pc = "forward"]]
    /\ UNCHANGED <<phase, model, file, boot, trainer, taco>>

\* predict logging the exception and raising it again
PredictReraise(message) ==
    [raised |-> TRUE, result |-> NoResult]

\* predict's "except Exception as e": the exception is turned into the error
\* result and does not leave predict
PredictExcept(message) ==
    [raised |-> FALSE, result |-> CreateErrorResult(message)]

\* some train request is inside model.fit
Fitting == \E u \in Threads : req[u].pc = "fitting"

\* "predictions = self.model.predict(processed_image, verbose=0)": the forward
\* pass returns one of outs or raises, and an exception is caught by predict
ModelPredict(t, outs) ==
    /\ phase = "running"
    /\ req[t].pc = "forward"
    /\ \/ \E out \in outs :
            req' = [req EXCEPT ![t] =
                [@ EXCEPT !.steps = @ \o <<"forward">>, !.out = out,
                    !.midFit = Fitting, !.pc = "threshold"]]
       \/ LET e == PredictExcept("Prediction failed")
          IN  req' = [req EXCEPT ![t] =
                [@ EXCEPT !.steps = @ \o <<"forward_raised">>,
                    !.midFit = Fitting,
                    !.result = e.result,
                    !.pc = IF e.raised THEN "raised" ELSE "return"]]
    /\ UNCHANGED <<phase, model, file, boot, trainer, taco>>

\* predict, from the argmax to "return {...}"
Threshold(t) ==
    /\ phase = "running"
    /\ req[t].pc = "threshold"
    /\ req' = [req EXCEPT ![t] =
            [@ EXCEPT !.steps = @ \o <<"threshold">>,
                !.result = FormatResult(req[t].out), !.pc = "return"]]
    /\ UNCHANGED <<phase, model, file, boot, trainer, taco>>

\* the body health_check answers with once predict has returned
HealthBody ==
    [status |-> "healthy", message |-> "AI Detection Service is running",
     model_loaded |-> model.origin # "none", supported_types |-> class_names]

\* the body health_check answers with when predict raised
UnhealthyBody == [status |-> "unhealthy", message |-> "Service error"]

\* the end of the handler: "return jsonify(...), 200" after predict has
\* returned, the handler's own "except Exception" had predict raised
Respond(t) ==
    /\ phase = "running"
    /\ req[t].route \in {"detect", "upload", "health"}
    /\ req[t].pc \in {"return", "raised"}
    /\ req' = [req EXCEPT ![t] =
            IF req[t].pc = "raised"
            THEN [@ EXCEPT !.steps = @ \o <<"respond">>, !.status = 500,
                    !.body = IF req[t].route = "health" THEN UnhealthyBody
                             ELSE HandlerError("Detection failed"),
                    !.pc = "done"]
            ELSE [@ EXCEPT !.steps = @ \o <<"respond">>, !.status = 200,
                    !.body = IF req[t].route = "health" THEN HealthBody
                             ELSE req[t].result,
                    !.pc = "done"]]
    /\ UNCHANGED <<phase, model, file, boot, trainer, taco>>

(***************************************************************************)
(* POST /api/train: train_model and WasteDetector.train_with_sample_data   *)
(***************************************************************************)
\* train_model up to the call of self.model.fit, which then runs
TrainBegin(t) ==
    /\ Free(t)
    /\ req' = [req EXCEPT ![t] =
            [IdleSlot EXCEPT !.route = "train", !.steps = <<"fit_begin">>,
                !.pc = "fitting"]]
    /\ UNCHANGED <<phase, model, file, boot, trainer, taco>>

TrainFailed == [error |-> "Training failed", status |-> "failed"]

TrainSucceeded ==
    [message |-> "Model training completed successfully", status |-> "success"]

\* what train_with_sample_data does after model.fit: on to save_model when
\* the fit returned, out of the function by the exception when it raised
AfterFit(fitOk) == IF fitOk THEN "save" ELSE "raised"

\* model.fit ends.  It updates the weights of self.model in place; a fit that
\* raises may have updated some.
FitEnd(t) ==
    /\ phase = "running"
    /\ req[t].pc = "fitting"
    /\ \E fitOk \in BOOLEAN :
        /\ req' = [req EXCEPT ![t] =
                [@ EXCEPT !.steps = @ \o <<IF fitOk THEN "fit_end" ELSE "fit_raised">>,
                    !.pc = AfterFit(fitOk)]]
        /\ \/ model' = [model EXCEPT !.weights = "new"]
           \/ ~fitOk /\ model' = model
    /\ UNCHANGED <<phase, file, boot, trainer, taco>>

\* save_model swallowing its exception
AfterSaveSwallowed(saveOk) == "saved"

\* what train_with_sample_data does after save_model
AfterSave(saveOk) == IF saveOk THEN "saved" ELSE "raised"

\* the file self.model.save leaves: the model when it returns; when it (or
\* os.makedirs) raises, the file as it was or a partly written one
save_model(saveOk, f) ==
    IF saveOk THEN {model.weights} ELSE {f, "corrupt"}

\* self.save_model()
SaveModel(t) ==
    /\ phase = "running"
    /\ req[t].pc = "save"
    /\ \E saveOk \in BOOLEAN :
        /\ req' = [req EXCEPT ![t] =
                [@ EXCEPT !.steps = @ \o <<IF saveOk THEN "save" ELSE "save_raised">>,
                    !.pc = AfterSave(saveOk)]]
        /\ file' \in save_model(saveOk, file)
    /\ UNCHANGED <<phase, model, boot, trainer, taco>>

\* the answer of train_model: 200 when train_with_sample_data returned,
\* 500 from "except Exception"
TrainStatus(pc) == IF pc = "saved" THEN 200 ELSE 500

TrainRespond(t) ==
    /\ phase = "running"
    /\ req[t].route = "train"
    /\ req[t].pc \in {"saved", "raised"}
    /\ req' = [req EXCEPT ![t] =
            [@ EXCEPT !.steps = @ \o <<"respond">>,
                !.status = TrainStatus(req[t].pc),
                !.body = IF TrainStatus(req[t].pc) = 200 THEN TrainSucceeded
                         ELSE TrainFailed,
                !.pc = "done"]]
    /\ UNCHANGED <<phase, model, file, boot, trainer, taco>>

(***************************************************************************)
(* Specifications                                                          *)
(***************************************************************************)
\* one step of the request thread t, the forward pass drawing from outs
Handle(t, outs) ==
    \/ DetectWaste(t)
    \/ DetectWasteUpload(t)
    \/ HealthCheck(t)
    \/ PredictPreprocess(t)
    \/ ModelPredict(t, outs)
    \/ Threshold(t)
    \/ Respond(t)
    \/ TrainBegin(t)
    \/ FitEnd(t)
    \/ SaveModel(t)
    \/ TrainRespond(t)

\* the service as app.run serves it: the threads interleave
Next ==
    \/ Start
    \/ Restart
    \/ \E t \in Threads : Handle(t, Outputs)

Spec == Init /\ [][Next]_vars

\* one request at a time, over every model output of OutputsWide
NextSeq ==
    \/ Start
    \/ Restart
    \/ Handle(1, OutputsWide)

SpecSeq == Init /\ [][NextSeq]_vars

(***************************************************************************)
(* The training script: WasteModelTrainer (ai/train_model.py)              *)
(***************************************************************************)
\* self.epochs
epochs == 50

\* the 10 of "epochs=min(self.epochs, 10)"
SyntheticEpochs == 10

\* EarlyStopping(monitor='val_loss', patience=10)
patience == 10

\* a trainer whose epochs attribute was lowered before train_model is called
ShortEpochs == 3

Min(a, b) == IF a <= b THEN a ELSE b

\* the values of data_dir: None, '' and a path
DataDirs == {"None", "empty", "path"}

\* "not data_dir"
NotDataDir(data_dir) == data_dir \in {"None", "empty"}

\* the condition written with "and" instead of "or"
UseSyntheticIfAll(use_synthetic, data_dir, exists) ==
    use_synthetic /\ (NotDataDir(data_dir) \/ ~exists)

\* "if use_synthetic or not data_dir or not os.path.exists(data_dir)"
UseSynthetic(use_synthetic, data_dir, exists) ==
    use_synthetic \/ NotDataDir(data_dir) \/ ~exists

\* the epochs argument of model.fit on either branch
FitEpochs(source, self_epochs) ==
    IF source = "synthetic" THEN Min(self_epochs, SyntheticEpochs) ELSE self_epochs

\* a run about to start: whether data/waste_dataset and models/ exist, and
\* the trainer's epochs attribute
TrainerStarts ==
    {[pc |-> "start", caller |-> "none", dataExists |-> d, modelsDir |-> m,
      self_epochs |-> e, data_dir |-> "None", use_synthetic |-> TRUE,
      source |-> "none", limit |-> 0, epoch |-> 0, wait |-> 0,
      checkpoints |-> FALSE, steps |-> <<>>] :
        d \in BOOLEAN, m \in BOOLEAN, e \in {epochs, ShortEpochs}}

\* main() up to "trainer.train_model(data_dir, use_synthetic)"
TrainerMain ==
    /\ trainer.pc = "start"
    /\ trainer' = [trainer EXCEPT !.caller = "main", !.data_dir = "path",
                        !.use_synthetic = ~trainer.dataExists,
                        !.steps = <<"main">>, !.pc = "train_model"]
    /\ UNCHANGED <<phase, model, file, boot, req, taco>>

\* train_model called by other code, with any arguments
TrainerCall ==
    /\ trainer.pc = "start"
    /\ \E d \in DataDirs, u \in BOOLEAN :
        \* os.path.exists of a data_dir that is no path is never evaluated
        trainer' = [trainer EXCEPT !.caller = "direct", !.data_dir = d,
                        !.use_synthetic = u, !.pc = "train_model"]
    /\ UNCHANGED <<phase, model, file, boot, req, taco>>

\* "model = self.create_model()" and the callbacks: create_model fetches the
\* imagenet weights and may raise
TrainerCreateModel ==
    /\ trainer.pc = "train_model"
    /\ \E ok \in BOOLEAN :
        trainer' = [trainer EXCEPT !.steps = @ \o <<IF ok THEN "create_model"
                                                   ELSE "create_model_raised">>,
                        !.pc = IF ok THEN "makedirs" ELSE "raised"]
    /\ UNCHANGED <<phase, model, file, boot, req, taco>>

\* train_model without the os.makedirs
MakeDirsForgotten(exists) == exists

\* "os.makedirs('models', exist_ok=True)": the directory exists afterwards
MakeDirs(exists) == TRUE

TrainerMakeDirs ==
    /\ trainer.pc = "makedirs"
    /\ trainer' = [trainer EXCEPT !.modelsDir = MakeDirs(trainer.modelsDir),
                        !.steps = @ \o <<"makedirs">>, !.pc = "select"]
    /\ UNCHANGED <<phase, model, file, boot, req, taco>>

\* the if of train_model up to the call of model.fit: the data of the branch
\* taken (create_data_generators may raise on the real directory) and the
\* epochs argument
TrainerSelect ==
    /\ trainer.pc = "select"
    /\ LET source == IF UseSynthetic(trainer.use_synthetic, trainer.data_dir,
                                     trainer.dataExists)
                     THEN "synthetic" ELSE "real"
       IN  \/ trainer' = [trainer EXCEPT !.source = source,
                            !.limit = FitEpochs(source, trainer.self_epochs),
                            !.steps = @ \o <<source, "fit_begin">>, !.pc = "fit"]
           \/ /\ source = "real"
              /\ trainer' = [trainer EXCEPT !.source = source,
                                !.steps = @ \o <<source, "generators_raised">>,
                                !.pc = "raised"]
    /\ UNCHANGED <<phase, model, file, boot, req, taco>>

\* one epoch of model.fit with its callbacks.  ModelCheckpoint writes
\* models/best_waste_detector.h5 when val_accuracy improved, which raises
\* without the directory; EarlyStopping counts the epochs without a better
\* val_loss and stops the fit at patience; the fit ends after limit epochs.
TrainerEpoch ==
    /\ trainer.pc = "fit"
    /\ \E betterAcc, betterLoss \in BOOLEAN :
        LET wait == IF betterLoss THEN 0 ELSE trainer.wait + 1
            last == trainer.epoch + 1 >= trainer.limit \/ wait >= patience
        IN  IF betterAcc /\ ~trainer.modelsDir
            THEN trainer' = [trainer EXCEPT !.epoch = @ + 1,
                                !.steps = @ \o <<"checkpoint_raised">>,
                                !.pc = "raised"]
            ELSE trainer' = [trainer EXCEPT !.epoch = @ + 1, !.wait = wait,
                                !.checkpoints = @ \/ betterAcc,
                                !.steps = IF last THEN @ \o <<"fit_end">> ELSE @,
                                !.pc = IF last THEN "save" ELSE "fit"]
    /\ UNCHANGED <<phase, model, file, boot, req, taco>>

\* "model.save('models/waste_detector.h5')": the file holds the trained model
\* when it returns; when it raises, the file is as it was or partly written
TrainerSave ==
    /\ trainer.pc = "save"
    /\ \E ok \in BOOLEAN :
        /\ trainer' = [trainer EXCEPT !.steps = @ \o <<IF ok THEN "save"
                                                       ELSE "save_raised">>,
                            !.pc = IF ok THEN "done" ELSE "raised"]
        /\ file' \in IF ok THEN {"new"} ELSE {file, "corrupt"}
    /\ UNCHANGED <<phase, model, boot, req, taco>>

InitTrainer ==
    /\ phase = "down"
    /\ model = NoModel
    /\ file \in {"absent", "corrupt", "old"}
    /\ boot = NoBoot
    /\ req = [t \in Threads |-> IdleSlot]
    /\ trainer \in TrainerStarts
    /\ taco = NoTaco

NextTrainer ==
    \/ TrainerMain
    \/ TrainerCall
    \/ TrainerCreateModel
    \/ TrainerMakeDirs
    \/ TrainerSelect
    \/ TrainerEpoch
    \/ TrainerSave

SpecTrainer == InitTrainer /\ [][NextTrainer]_vars

(***************************************************************************)
(* The dataset script: DatasetPreprocessor (ai/dataset_preprocessing.py)   *)
(***************************************************************************)
\* annotations in annotations.json
MaxAnnotations == 2

\* self.class_mapping
class_mapping ==
    [n \in {"Plastic bag", "Plastic bottle", "Plastic container", "Plastic cup",
            "Plastic lid", "Plastic straw", "Plastic utensils",
            "Battery", "Aerosol", "Paint bucket", "Chemical container",
            "Oil container", "Motor oil", "Cooking oil",
            "Mixed waste", "General litter", "Unknown"} |->
        CASE n \in {"Plastic bag", "Plastic bottle", "Plastic container",
                    "Plastic cup", "Plastic lid", "Plastic straw",
                    "Plastic utensils"} -> "Plastic"
          [] n \in {"Battery", "Aerosol", "Paint bucket",
                    "Chemical container"} -> "Chemical"
          [] n \in {"Oil container", "Motor oil", "Cooking oil"} -> "Oil"
          [] n \in {"Mixed waste", "General litter", "Unknown"} -> "Mixed Waste"]

\* self.target_classes
target_classes == <<"Plastic", "Chemical", "Oil", "Mixed Waste">>

\* dict.get(key, default)
Get(dict, key, default) == IF key \in DOMAIN dict THEN dict[key] ELSE default

\* "categories.get(category_id, 'Unknown')"
category_name(categories, category_id) == Get(categories, category_id, "Unknown")

\* a mapping that keeps the name of a category it has no entry for
target_class_unmapped(name) == Get(class_mapping, name, name)

\* "self.class_mapping.get(category_name, 'Mixed Waste')"
target_class(name) == Get(class_mapping, name, "Mixed Waste")

\* the directories setup_directories makes, by the class under output_dir
setup_directories(dirs) == dirs \cup {target_classes[i] : i \in DOMAIN target_classes}

\* category names of an annotations file: entries of three classes and a
\* name with no entry
CategoryNames == {"Plastic bottle", "Battery", "Motor oil", "Cigarette"}

\* the ids of data['categories'], and the ids annotations refer to (0 is in
\* no table)
CategoryIds == {1, 2}
AnnotationCategoryIds == {0, 1, 2}

\* data['categories'] as the dict built from it
CategoryTables == [CategoryIds -> CategoryNames]

\* an annotation: its image is listed in data['images'] with its file there
\* ("present") or not ("no_file"), or is not listed at all ("unlisted")
Annotations ==
    [image : {"present", "no_file", "unlisted"}, category_id : AnnotationCategoryIds]

AnnotationLists ==
    UNION {[1..n -> Annotations] : n \in 0..MaxAnnotations}

\* the class directories that exist under output_dir before the script runs
TacoStarts ==
    {[pc |-> "start", caller |-> "none", dirs |-> d, made |-> {},
      categories |-> <<>>, annotations |-> <<>>, i |-> 0,
      processed_count |-> 0, assigned |-> <<>>, written |-> {}] :
        d \in {{}, {"Plastic", "Mixed Waste"}}}

\* main() with data/raw/taco present: setup_directories, then
\* process_taco_dataset is called
TacoMain ==
    /\ taco.pc = "start"
    /\ taco' = [taco EXCEPT !.caller = "main",
                    !.dirs = setup_directories(taco.dirs),
                    !.made = setup_directories({}),
                    !.pc = "open"]
    /\ UNCHANGED <<phase, model, file, boot, req, trainer>>

\* process_taco_dataset called by other code, without setup_directories
TacoCall ==
    /\ taco.pc = "start"
    /\ taco' = [taco EXCEPT !.caller = "direct", !.pc = "open"]
    /\ UNCHANGED <<phase, model, file, boot, req, trainer>>

\* process_taco_dataset up to the loop: return without annotations.json,
\* else load it and build the categories dict
TacoOpen ==
    /\ taco.pc = "open"
    /\ \/ taco' = [taco EXCEPT !.pc = "returned"]
       \/ \E c \in CategoryTables, a \in AnnotationLists :
            taco' = [taco EXCEPT !.categories = c, !.annotations = a,
                        !.pc = "loop"]
    /\ UNCHANGED <<phase, model, file, boot, req, trainer>>

\* resize_and_save_image: the file is written when the image opens and the
\* target directory exists; every exception is swallowed
resize_and_save_image(written, dirs, dir, name, imageOk) ==
    IF imageOk /\ dir \in dirs THEN written \cup {[dir |-> dir, name |-> name]}
    ELSE written

\* the body of the loop for the next annotation.  The lookup of an unlisted
\* image raises and the except clause goes on to the next annotation before
\* any class is chosen; a listed image gets its class, and its file is
\* resized and saved and counted when the source file exists.
TacoAnnotation ==
    /\ taco.pc = "loop"
    /\ taco.i < Len(taco.annotations)
    /\ LET annotation == taco.annotations[taco.i + 1]
           class == target_class(category_name(taco.categories,
                                               annotation.category_id))
       IN  \E imageOk \in BOOLEAN :
            \/ /\ annotation.image = "unlisted"
               /\ taco' = [taco EXCEPT !.i = @ + 1,
                               !.assigned = Append(@, "skipped")]
            \/ /\ annotation.image = "no_file"
               /\ taco' = [taco EXCEPT !.i = @ + 1,
                               !.assigned = Append(@, class)]
            \/ /\ annotation.image = "present"
               /\ taco' = [taco EXCEPT !.i = @ + 1,
                               !.assigned = Append(@, class),
                               !.written = resize_and_save_image(@, taco.dirs,
                                    class, taco.processed_count, imageOk),
                               !.processed_count = @ + 1]
    /\ UNCHANGED <<phase, model, file, boot, req, trainer>>

\* the loop is over: process_taco_dataset returns
TacoEnd ==
    /\ taco.pc = "loop"
    /\ taco.i = Len(taco.annotations)
    /\ taco' = [taco EXCEPT !.pc = "returned"]
    /\ UNCHANGED <<phase, model, file, boot, req, trainer>>

InitTaco ==
    /\ phase = "down"
    /\ model = NoModel
    /\ file = "absent"
    /\ boot = NoBoot
    /\ req = [t \in Threads |-> IdleSlot]
    /\ trainer = NoTrainer
    /\ taco \in TacoStarts

NextTaco ==
    \/ TacoMain
    \/ TacoCall
    \/ TacoOpen
    \/ TacoAnnotation
    \/ TacoEnd

SpecTaco == InitTaco /\ [][NextTaco]_vars

(***************************************************************************)
(* Properties                                                              *)
(***************************************************************************)
\* predict has returned its dictionary to the handler of t
Returned(t) == req[t].pc \in {"return", "done"} /\ req[t].result # NoResult

\* the handler of t has answered
Answered(t) == req[t].pc = "done"

\* t is a detect request answered 200, whose body is predict's result
Detected(t) ==
    Answered(t) /\ req[t].route \in {"detect", "upload"} /\ req[t].status = 200

Has(seq, x) == \E i \in DOMAIN seq : seq[i] = x

\* x occurs in seq and, wherever it does, some y occurs earlier
After(seq, x, y) ==
    \A i \in DOMAIN seq : seq[i] = x => \E j \in 1..(i - 1) : seq[j] = y

\* the risk level the specification associates with each category
CategoryRisk ==
    [c \in {"Plastic", "Chemical", "Oil", "Mixed Waste"} |->
        CASE c = "Plastic" -> "Medium" [] c = "Chemical" -> "Critical"
          [] c = "Oil" -> "High" [] c = "Mixed Waste" -> "Medium"]

\* C1, as stated: every result predict returns, and every body a detect
\* endpoint sends with status 200, has one of the four categories as its
\* wasteType and that category's risk level as its riskLevel.
C1_AlwaysACategory ==
    \A t \in Threads :
        /\ Returned(t) =>
            /\ req[t].result.wasteType \in DOMAIN CategoryRisk
            /\ req[t].result.riskLevel = CategoryRisk[req[t].result.wasteType]
        /\ Detected(t) =>
            /\ req[t].body.wasteType \in DOMAIN CategoryRisk
            /\ req[t].body.riskLevel = CategoryRisk[req[t].body.wasteType]

LabelledOrUnknown(r) ==
    \/ /\ r.wasteType \in DOMAIN CategoryRisk
       /\ r.riskLevel = CategoryRisk[r.wasteType]
    \/ /\ r.wasteType = "Unknown"
       /\ r.riskLevel = "Low"

\* C1, amended: every result predict returns, and every body a detect
\* endpoint sends with status 200, has as its wasteType either one of the
\* four categories, with that category's risk level, or 'Unknown', with
\* risk level 'Low'.
C1_CategoryOrUnknown ==
    \A t \in Threads :
        /\ Returned(t) => LabelledOrUnknown(req[t].result)
        /\ Detected(t) => LabelledOrUnknown(req[t].body)

\* a detect request answered 200 with a category and its risk level
C1_Witness ==
    \E t \in Threads :
        /\ Detected(t)
        /\ req[t].route = "detect"
        /\ req[t].body.wasteType = "Oil"
        /\ req[t].body.riskLevel = "High"

\* the result of t was computed from a model output
Thresholded(t) == Returned(t) /\ req[t].out # <<>>

\* the top-class probability of an output, in thousandths of a percent
Top(v) == CHOOSE c \in {v[i] : i \in DOMAIN v} : \A j \in DOMAIN v : v[j] <= c

\* what C2 requires of result r for output v, conf being how the confidence
\* is reported
ThresholdRule(v, r, conf(_)) ==
    LET c == Top(v)
    IN  IF c < 60000
        THEN /\ r.wasteType = "Unknown"
             /\ r.riskLevel = "Low"
             /\ r.confidence = conf(IF c >= 50000 THEN c ELSE 50000)
        ELSE /\ r.wasteType \in DOMAIN CategoryRisk
             /\ \E i \in DOMAIN v : v[i] = c /\ class_names[i] = r.wasteType
             /\ \A i \in DOMAIN v : v[i] = c => class_names[i] = r.wasteType
             /\ r.riskLevel = CategoryRisk[r.wasteType]
             /\ r.confidence = conf(c)

Exactly(x) == x

\* round half to even to hundredths of a percent, stated apart from Round2
ToHundredths(x) ==
    CHOOSE y \in {10 * ((x \div 10) + d) : d \in {0, 1}} :
        /\ 2 * (IF y >= x THEN y - x ELSE x - y) <= 10
        /\ 2 * (IF y >= x THEN y - x ELSE x - y) = 10 => (y \div 10) % 2 = 0

\* C2, as stated: with c the top-class probability in percent, c < 60 gives
\* 'Unknown', 'Low' and confidence max(c, 50); c >= 60 gives the argmax
\* class, its risk level and confidence c.
C2_ExactConfidence ==
    \A t \in Threads :
        Thresholded(t) => ThresholdRule(req[t].out, req[t].result, Exactly)

\* C2, amended: as stated, except that the reported confidence is max(c, 50),
\* respectively c, rounded to two decimals (so a c in [59.995, 60) is
\* reported as 'Unknown' with confidence 60.0).
C2_RoundedConfidence ==
    \A t \in Threads :
        Thresholded(t) => ThresholdRule(req[t].out, req[t].result, ToHundredths)

\* a top-class probability of exactly 60 % was labelled with its class
C2_Witness ==
    \E t \in Threads :
        /\ Thresholded(t)
        /\ Top(req[t].out) = 60000
        /\ req[t].result.wasteType = "Chemical"
        /\ req[t].result.confidence = 60000

\* t is handled through waste_detector.predict
Predicting(t) == req[t].route \in {"detect", "upload", "health"}

\* the default error result, as C4 words it
IsErrorResult(r) ==
    /\ DOMAIN r = {"wasteType", "confidence", "riskLevel", "error", "allPredictions"}
    /\ r.wasteType = "Unknown"
    /\ r.confidence = 50000
    /\ r.riskLevel = "Low"
    /\ r.error # ""
    /\ DOMAIN r.allPredictions = 1..4
    /\ \A i \in 1..4 : r.allPredictions[i] = 25000

\* C3: in every request handled through predict the steps occur in the order
\* fetch/decode, preprocess, forward pass, threshold/format, response: a
\* forward pass only after the preprocessing of that request succeeded, the
\* thresholding only after the forward pass, the response last; and when
\* preprocess_image returned None there is no forward pass and predict
\* returns the error result.
C3_PipelineOrder ==
    \A t \in Threads : Predicting(t) =>
        LET s == req[t].steps
        IN  /\ After(s, "preprocess", "predict")
            /\ After(s, "fetch", "predict")
            /\ \A i \in DOMAIN s : s[i] = "preprocess" /\ req[t].arg \in {"http", "bytes"}
                    => \E j \in 1..(i - 1) : s[j] = "decode"
            /\ After(s, "decode", "predict")
            /\ \A i \in DOMAIN s : s[i] = "decode" /\ req[t].arg = "http"
                    => \E j \in 1..(i - 1) : s[j] = "fetch"
            /\ After(s, "preprocessed", "preprocess")
            /\ After(s, "forward", "preprocessed")
            /\ After(s, "forward_raised", "preprocessed")
            /\ After(s, "threshold", "forward")
            /\ \A i \in DOMAIN s : s[i] = "respond" =>
                    /\ i = Len(s)
                    /\ \/ Has(s, "threshold")
                       \/ Has(s, "forward_raised")
                       \/ Has(s, "preprocess_none")
            /\ Has(s, "preprocess_none") =>
                    /\ ~Has(s, "preprocessed")
                    /\ ~Has(s, "forward")
                    /\ ~Has(s, "forward_raised")
                    /\ ~Has(s, "threshold")
                    /\ req[t].out = <<>>
                    /\ req[t].pc \in {"return", "done"}
                    /\ IsErrorResult(req[t].result)

\* a URL request has gone through every stage, in order
C3_Witness ==
    \E t \in Threads :
        /\ req[t].route = "detect"
        /\ req[t].steps = <<"get_json", "predict", "fetch", "decode", "preprocess",
                            "preprocessed", "forward", "threshold", "respond">>
        /\ req[t].status = 200

\* some stage of predict failed in t
StageFailed(t) ==
    Has(req[t].steps, "preprocess_none") \/ Has(req[t].steps, "forward_raised")

\* C4: predict never raises: no exception of the fetch, the decoding, the
\* preprocessing or the model call leaves it, for a str, bytes, None or other
\* argument, and after any such failure it returns the default error result.
C4_PredictNeverRaises ==
    \A t \in Threads : Predicting(t) =>
        /\ req[t].pc # "raised"
        /\ Answered(t) /\ Has(req[t].steps, "predict") => req[t].status = 200
        /\ StageFailed(t) =>
            /\ req[t].pc \in {"return", "done"}
            /\ IsErrorResult(req[t].result)

\* the model call raised in an upload request and the error result was sent
C4_Witness ==
    \E t \in Threads :
        /\ req[t].route = "upload"
        /\ Has(req[t].steps, "forward_raised")
        /\ Answered(t)
        /\ req[t].status = 200
        /\ IsErrorResult(req[t].body)

\* the 400 body of C5
IsRejection(b) ==
    /\ {"error", "wasteType", "confidence", "riskLevel"} \subseteq DOMAIN b
    /\ b.error # ""
    /\ b.wasteType = "Unknown"
    /\ b.confidence = 50000
    /\ b.riskLevel = "Low"

\* the requests C5 is about
Invalid(t) ==
    \/ req[t].route = "detect" /\ req[t].input \in {"absent", "emptyObject", "noKey", "number"}
    \/ req[t].route = "upload" /\ req[t].input \in {"noImagePart", "emptyFilename"}

\* C5: a POST /api/detect whose JSON body is absent, empty or without an
\* 'imageUrl' key, and a POST /api/detect/upload without an 'image' part or
\* with an empty filename, is answered 400 with the error body, and predict
\* is not invoked for it.
C5_InvalidRequestIs400 ==
    \A t \in Threads : Invalid(t) =>
        /\ ~Has(req[t].steps, "predict")
        /\ Answered(t)
        /\ req[t].status = 400
        /\ IsRejection(req[t].body)

\* C6: GET /api/health answers 200 'healthy' only when the model was
\* actually invoked for a prediction and the call succeeded, and 500
\* 'unhealthy' when the model is missing or the model call fails.
C6_HealthTestsModel ==
    \A t \in Threads : req[t].route = "health" /\ Answered(t) =>
        IF Has(req[t].steps, "forward")
        THEN req[t].status = 200 /\ req[t].body.status = "healthy"
        ELSE req[t].status = 500 /\ req[t].body.status = "unhealthy"

\* C7: the handlers of two requests never overlap, so no forward pass of a
\* detect request runs while a train request is fitting the same model.
C7_NoForwardDuringFit ==
    \A t \in Threads : ~req[t].midFit

\* C8: the image of a POST /api/detect request is obtained only by an HTTP
\* fetch of 'imageUrl'; no value of 'imageUrl' makes the service open a file
\* of the local file system.
C8_OnlyHttpFetch ==
    \A t \in Threads : req[t].route = "detect" =>
        /\ ~Has(req[t].steps, "open_local_file")
        /\ Has(req[t].steps, "preprocessed") => Has(req[t].steps, "fetch")

\* C9: load_model uses the loaded model when the file exists and loads, and a
\* newly created one when the file exists but does not load or does not
\* exist; no exception of the loading leaves it (only create_model's can);
\* so once the construction has returned, model is not None.
C9_LoadOrCreate ==
    /\ phase = "running" =>
        /\ model.origin # "none"
        /\ boot.file \in {"old", "new"} => model.origin = "loaded"
        /\ boot.file \in {"absent", "corrupt"} => model.origin = "created"
    /\ phase = "crashed" =>
        /\ ~boot.createOk
        /\ boot.file \in {"absent", "corrupt"}

\* the file existed, loading it raised, and a created model serves
C9_Witness ==
    /\ phase = "running"
    /\ boot.file = "corrupt"
    /\ model.origin = "created"
    /\ \E t \in Threads : Detected(t)

Chosen == trainer.source # "none"

\* train_model's fit has returned
Fitted == trainer.pc \in {"save", "done"} \/ Has(trainer.steps, "fit_end")

\* C11: train_model trains on the real data exactly when use_synthetic is
\* false and data_dir is given and exists, and on synthetic data with
\* min(epochs, 10) epochs in every other case; the models directory exists
\* before the fit begins and at every checkpoint write; the final model is
\* saved to models/waste_detector.h5 after the fit; main() asks for synthetic
\* data exactly when data/waste_dataset does not exist.
C11_SyntheticFallback ==
    /\ Chosen =>
        /\ trainer.source = "real" <=>
            (~trainer.use_synthetic /\ trainer.data_dir = "path"
                /\ trainer.dataExists)
        /\ trainer.source # "real" => trainer.source = "synthetic"
    /\ (Has(trainer.steps, "fit_begin") /\ trainer.source = "synthetic") =>
        /\ trainer.limit =
            (IF trainer.self_epochs < 10 THEN trainer.self_epochs ELSE 10)
        /\ trainer.epoch <= trainer.limit
        /\ Fitted => trainer.epoch = trainer.limit
    /\ Has(trainer.steps, "fit_begin") =>
        /\ After(trainer.steps, "fit_begin", "makedirs")
        /\ trainer.modelsDir
    /\ ~Has(trainer.steps, "checkpoint_raised")
    /\ After(trainer.steps, "save", "fit_end")
    /\ After(trainer.steps, "fit_end", "fit_begin")
    /\ trainer.pc = "done" => (Has(trainer.steps, "save") /\ file = "new")
    /\ trainer.caller = "main" =>
        /\ trainer.data_dir = "path"
        /\ trainer.use_synthetic <=> ~trainer.dataExists

\* train_model was asked for the real data of a directory that does not
\* exist and a models directory that did not exist either: it trained for
\* the ten synthetic epochs, wrote checkpoints and saved the final model
C11_Witness ==
    /\ trainer.pc = "done"
    /\ ~trainer.use_synthetic
    /\ trainer.data_dir = "path"
    /\ ~trainer.dataExists
    /\ trainer.source = "synthetic"
    /\ trainer.self_epochs = 50
    /\ trainer.epoch = 10
    /\ trainer.checkpoints
    /\ Has(trainer.steps, "makedirs")
    /\ file = "new"

\* the four classes of the dataset
FourClasses == {"Plastic", "Chemical", "Oil", "Mixed Waste"}

\* the annotations the loop has handled
Handled == 1..taco.i

====
